---- MODULE Spec2Model ----
(***************************************************************************)
(* Model of run_process_advisor (src/main.py): one invocation of the       *)
(* business-process advisor against the agent-hosting platform.            *)
(*                                                                         *)
(* Strings that the program inspects are sequences of characters or of     *)
(* tokens, so that strip(), join() and the role/segment selection are      *)
(* computed, not assumed.  Every platform operation may raise.  What the   *)
(* platform does inside runs.create_and_process (which connected agent it  *)
(* calls and when, which assistant messages it appends, the terminal       *)
(* status) is not fixed by the program and is a nondeterministic choice.   *)
(***************************************************************************)
EXTENDS Integers, Sequences, FiniteSets, TLC

\* ---------------------------------------------------------------- bounds
MaxLines == 2
MaxAssistantMsgs == 2

\* ------------------------------------------------------------- constants
None == "None"
NL == "\n"
Whitespace == {" ", NL, "\t"}
NoneStr == <<"n", "o", "n", "e">>

\* values os.getenv can give: unset, set to the empty string, set
EnvValues == {None, "", "set"}

\* lines the user can type (the empty line ends the description)
LinePool == {<<" ">>, <<"a">>}
\* raw answers to the "additional instructions" prompt
CustomPool == {<<>>, <<" ", "x">>}

TopSections == {"PROCESS ANALYSIS", "OPTIMIZATION RECOMMENDATIONS"}
SubSections == {"Process Steps", "Bottlenecks", "Tools Involved",
                "Missing Information", "Automation Opportunities",
                "Elimination of Redundant Steps", "Clearer Ownership",
                "Feasibility Constraints"}
Headings == TopSections \cup SubSections

\* texts an assistant message segment can carry (sequences of tokens)
AnalysisText == <<"PROCESS ANALYSIS", "Process Steps", "Bottlenecks",
                  "Tools Involved", "Missing Information">>
OptimizationText == <<"OPTIMIZATION RECOMMENDATIONS",
                      "Automation Opportunities",
                      "Elimination of Redundant Steps",
                      "Clearer Ownership", "Feasibility Constraints">>

\* statuses runs.create_and_process can return (it polls until the run
\* leaves queued / in_progress / requires_action)
TerminalStatuses == {"completed", "failed", "expired"}

Workers == {"analysis", "optimization"}

\* ------------------------------------------------------- pure functions
\* bool(x) is False for None and for the empty string
Falsy(x) == x = None \/ x = ""

RECURSIVE LStrip(_)
LStrip(s) == IF s = <<>> THEN s
             ELSE IF Head(s) \in Whitespace THEN LStrip(Tail(s)) ELSE s

RECURSIVE RStrip(_)
RStrip(s) == IF s = <<>> THEN s
             ELSE IF s[Len(s)] \in Whitespace
                  THEN RStrip(SubSeq(s, 1, Len(s) - 1)) ELSE s

\* str.strip()
Strip(s) == RStrip(LStrip(s))

\* sep.join(parts), parts a sequence of sequences
RECURSIVE Join(_, _)
Join(parts, sep) ==
    IF parts = <<>> THEN <<>>
    ELSE IF Len(parts) = 1 THEN parts[1]
    ELSE parts[1] \o <<sep>> \o Join(Tail(parts), sep)

IsBlankLoose(description) == description = <<>>
\* `not process_description.strip()`
IsBlank(description) == Strip(description) = <<>>

\* input().strip() or "none"
CustomOf(raw) == IF Strip(raw) = <<>> THEN NoneStr ELSE Strip(raw)

\* the user message posted to the thread
UserMessage(description, custom) ==
    <<"Process description:", NL>> \o description \o <<NL>>
    \o (IF custom # NoneStr
        THEN <<NL, "Additional instructions: ">> \o custom \o <<NL>>
        ELSE <<>>)
    \o <<NL, "Please analyse and optimise this process.">>

Reverse(s) == [i \in 1..Len(s) |-> s[Len(s) + 1 - i]]

ListMessagesDescending(thread_messages) == Reverse(thread_messages)
\* messages.list(thread_id, order=ListSortOrder.ASCENDING): the thread's
\* messages, kept by the platform in creation order
ListMessages(thread_messages) == thread_messages

\* m.text_messages[-1].text.value
FinalSegment(m) == m.text_messages[Len(m.text_messages)]

\* the platform ids of the three definitions
AgentId(name) ==
    CASE name = "process_analysis_agent" -> "asst_analysis"
      [] name = "process_optimization_advisor" -> "asst_optimizer"
      [] name = "process_orchestrator" -> "asst_orchestrator"
AgentIds == {"asst_analysis", "asst_optimizer", "asst_orchestrator"}
ThreadId == "thread_1"

VARIABLES
    pc,                  \* position in run_process_advisor
    PROJECT_ENDPOINT, MODEL_DEPLOYMENT,
    session,             \* agents_client: "unopened", "open", "closed"
    process_lines, process_description, custom_commands,
    analysis_agent, optimizer_agent, orchestrator,   \* locals: None or id
    thread,              \* local: None or id
    run,                 \* [status, last_error]
    messages, mi,        \* result of messages.list and the loop position
    assistant_texts, full_report,
    agents_to_clean, ci, \* the cleanup list and the loop position
    exc,                 \* the exception in flight, None when there is none
    exit_kind,           \* how the with-block was left
    printed,             \* what was printed, in order
    outputs,             \* report files written, in order
    platformAgents,      \* definitions that exist on the platform
    platformThreads,     \* threads that exist on the platform
    thread_messages,     \* messages of the thread, in creation order
    platformRuns,        \* number of runs started on the platform
    delegation,          \* per worker: "none", "running", "done"
    calls                \* platform operations issued, in order

vars == <<pc, PROJECT_ENDPOINT, MODEL_DEPLOYMENT, session, process_lines,
          process_description, custom_commands, analysis_agent,
          optimizer_agent, orchestrator, thread, run, messages, mi,
          assistant_texts, full_report, agents_to_clean, ci, exc,
          exit_kind, printed, outputs, platformAgents, platformThreads,
          thread_messages, platformRuns, delegation, calls>>

inputVars == <<process_lines, process_description, custom_commands>>
envVars == <<PROJECT_ENDPOINT, MODEL_DEPLOYMENT>>
agentVars == <<analysis_agent, optimizer_agent, orchestrator>>
collectVars == <<messages, mi, assistant_texts, full_report>>
cleanVars == <<agents_to_clean, ci>>
platformVars == <<platformAgents, platformThreads, thread_messages,
                  platformRuns, delegation>>

Call(op, arg) == [op |-> op, arg |-> arg, session |-> session]

Init ==
    /\ pc = "check_config"
    /\ PROJECT_ENDPOINT \in EnvValues
    /\ MODEL_DEPLOYMENT \in EnvValues
    /\ session = "unopened"
    /\ process_lines = <<>>
    /\ process_description = <<>>
    /\ custom_commands = <<>>
    /\ analysis_agent = None
    /\ optimizer_agent = None
    /\ orchestrator = None
    /\ thread = None
    /\ run = [status |-> "none", last_error |-> None]
    /\ messages = <<>>
    /\ mi = 0
    /\ assistant_texts = <<>>
    /\ full_report = <<>>
    /\ agents_to_clean = <<>>
    /\ ci = 0
    /\ exc = None
    /\ exit_kind = "none"
    /\ printed = <<>>
    /\ outputs = <<>>
    /\ platformAgents = {}
    /\ platformThreads = {}
    /\ thread_messages = <<>>
    /\ platformRuns = 0
    /\ delegation = [w \in Workers |-> "none"]
    /\ calls = <<>>

\* an exception raised inside the with-block: __exit__ runs next
RaiseInWith(e) == exc' = e /\ pc' = "exit_with"

\* ------------------------------------------------------------ pre-flight
\* lines 32-36
CheckConfig ==
    /\ pc = "check_config"
    /\ IF Falsy(PROJECT_ENDPOINT) \/ Falsy(MODEL_DEPLOYMENT)
       THEN exc' = "RuntimeError" /\ pc' = "done"
       ELSE exc' = exc /\ pc' = "construct_client"
    /\ UNCHANGED <<envVars, session, inputVars, agentVars, thread, run,
                   collectVars, cleanVars, exit_kind, printed, outputs,
                   platformVars, calls>>

\* lines 38-42: outside the try, so an error here skips the finally
ConstructClient ==
    /\ pc = "construct_client"
    /\ \/ exc' = exc /\ pc' = "enter_with"
       \/ exc' = "ClientError" /\ pc' = "done"
    /\ UNCHANGED <<envVars, session, inputVars, agentVars, thread, run,
                   collectVars, cleanVars, exit_kind, printed, outputs,
                   platformVars, calls>>

\* line 45: agents_client.__enter__
EnterWith ==
    /\ pc = "enter_with"
    /\ \/ session' = "open" /\ exc' = exc /\ pc' = "input_lines"
       \/ session' = session /\ exc' = "ClientError" /\ pc' = "finally"
    /\ UNCHANGED <<envVars, inputVars, agentVars, thread, run, collectVars,
                   cleanVars, exit_kind, printed, outputs, platformVars,
                   calls>>

\* lines 49-55: one input() of the loop; the empty line ends it
ReadLine ==
    /\ pc = "input_lines"
    /\ \/ \E line \in LinePool :
            /\ Len(process_lines) < MaxLines
            /\ process_lines' = Append(process_lines, line)
            /\ UNCHANGED <<process_description, exc, pc>>
       \/ /\ process_description' = Join(process_lines, NL)
          /\ pc' = "check_description"
          /\ UNCHANGED <<process_lines, exc>>
       \/ /\ RaiseInWith("EOFError")
          /\ UNCHANGED <<process_lines, process_description>>
    /\ UNCHANGED <<envVars, session, custom_commands, agentVars, thread, run,
                   collectVars, cleanVars, exit_kind, printed, outputs,
                   platformVars, calls>>

\* lines 57-59
CheckDescription ==
    /\ pc = "check_description"
    /\ IF IsBlank(process_description)
       THEN /\ printed' = Append(printed, <<"no_description">>)
            /\ exit_kind' = "return_blank"
            /\ pc' = "exit_with"
       ELSE /\ pc' = "input_custom"
            /\ UNCHANGED <<printed, exit_kind>>
    /\ UNCHANGED <<envVars, session, inputVars, agentVars, thread, run,
                   collectVars, cleanVars, exc, outputs, platformVars, calls>>

\* lines 61-62
ReadCustom ==
    /\ pc = "input_custom"
    /\ \/ \E raw \in CustomPool :
            /\ custom_commands' = CustomOf(raw)
            /\ pc' = "create_analysis"
            /\ exc' = exc
       \/ RaiseInWith("EOFError") /\ UNCHANGED custom_commands
    /\ UNCHANGED <<envVars, session, process_lines, process_description,
                   agentVars, thread, run, collectVars, cleanVars, exit_kind,
                   printed, outputs, platformVars, calls>>

\* ------------------------------------------------------ create agents
\* agents_client.create_agent(model, name, instructions, tools)
CreateAgent(name, tools) ==
    /\ calls' = Append(calls, Call("create_agent", name))
    /\ platformAgents' = platformAgents \cup
           {[id |-> AgentId(name), name |-> name, tools |-> tools]}

CreateAgentFails(name) ==
    /\ calls' = Append(calls, Call("create_agent", name))
    /\ RaiseInWith("HttpResponseError")
    /\ UNCHANGED platformAgents

\* lines 66-81
CreateAnalysisAgent ==
    /\ pc = "create_analysis"
    /\ \/ /\ CreateAgent("process_analysis_agent", <<>>)
          /\ analysis_agent' = AgentId("process_analysis_agent")
          /\ pc' = "create_optimizer"
          /\ exc' = exc
       \/ /\ CreateAgentFails("process_analysis_agent")
          /\ UNCHANGED analysis_agent
    /\ UNCHANGED <<envVars, session, inputVars, optimizer_agent, orchestrator,
                   thread, run, collectVars, cleanVars, exit_kind, printed,
                   outputs, platformThreads, thread_messages, platformRuns,
                   delegation>>

\* lines 84-100
CreateOptimizerAgent ==
    /\ pc = "create_optimizer"
    /\ \/ /\ CreateAgent("process_optimization_advisor", <<>>)
          /\ optimizer_agent' = AgentId("process_optimization_advisor")
          /\ pc' = "create_orchestrator"
          /\ exc' = exc
       \/ /\ CreateAgentFails("process_optimization_advisor")
          /\ UNCHANGED optimizer_agent
    /\ UNCHANGED <<envVars, session, inputVars, analysis_agent, orchestrator,
                   thread, run, collectVars, cleanVars, exit_kind, printed,
                   outputs, platformThreads, thread_messages, platformRuns,
                   delegation>>

OrchestratorToolsAnalysisOnly == <<analysis_agent>>
\* lines 103-112 and 133: one ConnectedAgentTool per worker, by id
OrchestratorTools == <<analysis_agent, optimizer_agent>>

\* lines 114-134
CreateOrchestrator ==
    /\ pc = "create_orchestrator"
    /\ \/ /\ CreateAgent("process_orchestrator", OrchestratorTools)
          /\ orchestrator' = AgentId("process_orchestrator")
          /\ pc' = "create_thread"
          /\ exc' = exc
       \/ /\ CreateAgentFails("process_orchestrator")
          /\ UNCHANGED orchestrator
    /\ UNCHANGED <<envVars, session, inputVars, analysis_agent,
                   optimizer_agent, thread, run, collectVars, cleanVars,
                   exit_kind, printed, outputs, platformThreads,
                   thread_messages, platformRuns, delegation>>

\* ------------------------------------------------------ run orchestration
\* line 137
CreateThread ==
    /\ pc = "create_thread"
    /\ calls' = Append(calls, Call("threads.create", None))
    /\ \/ /\ platformThreads' = platformThreads \cup {ThreadId}
          /\ thread' = ThreadId
          /\ pc' = "create_message"
          /\ exc' = exc
       \/ /\ RaiseInWith("HttpResponseError")
          /\ UNCHANGED <<platformThreads, thread>>
    /\ UNCHANGED <<envVars, session, inputVars, agentVars, run, collectVars,
                   cleanVars, exit_kind, printed, outputs, platformAgents,
                   thread_messages, platformRuns, delegation>>

\* lines 139-148
CreateMessage ==
    /\ pc = "create_message"
    /\ calls' = Append(calls, Call("messages.create", thread))
    /\ \/ /\ thread_messages' = Append(thread_messages,
                [role |-> "user",
                 text_messages |->
                     <<UserMessage(process_description, custom_commands)>>])
          /\ pc' = "create_and_process"
          /\ exc' = exc
       \/ /\ RaiseInWith("HttpResponseError")
          /\ UNCHANGED thread_messages
    /\ UNCHANGED <<envVars, session, inputVars, agentVars, thread, run,
                   collectVars, cleanVars, exit_kind, printed, outputs,
                   platformAgents, platformThreads, platformRuns, delegation>>

\* lines 150-153: the call is issued and the program blocks in it
StartRun ==
    /\ pc = "create_and_process"
    /\ calls' = Append(calls, Call("create_and_process", orchestrator))
    /\ \/ /\ platformRuns' = platformRuns + 1
          /\ pc' = "run_wait"
          /\ exc' = exc
       \/ /\ RaiseInWith("HttpResponseError")
          /\ UNCHANGED platformRuns
    /\ UNCHANGED <<envVars, session, inputVars, agentVars, thread, run,
                   collectVars, cleanVars, exit_kind, printed, outputs,
                   platformAgents, platformThreads, thread_messages,
                   delegation>>

runWaitFrame == <<envVars, session, inputVars, agentVars, thread,
                  collectVars, cleanVars, exit_kind, printed, outputs,
                  platformAgents, platformThreads, platformRuns, calls>>

\* While the program is blocked, the orchestrator definition (its
\* instructions, lines 117-132, and its two tools, line 133) is executed by
\* the platform's model: it picks which connected agent to call and when.
DelegateBegin ==
    /\ pc = "run_wait"
    /\ \E w \in Workers :
          /\ delegation[w] = "none"
          /\ delegation' = [delegation EXCEPT ![w] = "running"]
    /\ UNCHANGED <<runWaitFrame, run, thread_messages, exc, pc>>

DelegateEnd ==
    /\ pc = "run_wait"
    /\ \E w \in Workers :
          /\ delegation[w] = "running"
          /\ delegation' = [delegation EXCEPT ![w] = "done"]
    /\ UNCHANGED <<runWaitFrame, run, thread_messages, exc, pc>>

\* the text segments an assistant message can carry: none (a message
\* without text), one, or two with either text last
SegSeqs == {<<>>, <<AnalysisText>>, <<AnalysisText, OptimizationText>>,
            <<OptimizationText, AnalysisText>>}
AssistantCount(msgs) ==
    Cardinality({i \in DOMAIN msgs : msgs[i].role = "assistant"})

\* the run appends the assistant's messages to the thread
AssistantReply ==
    /\ pc = "run_wait"
    /\ AssistantCount(thread_messages) < MaxAssistantMsgs
    /\ \E segs \in SegSeqs :
          thread_messages' = Append(thread_messages,
              [role |-> "assistant", text_messages |-> segs])
    /\ UNCHANGED <<runWaitFrame, run, delegation, exc, pc>>

\* create_and_process returns the run once its status is terminal
RunTerminates ==
    /\ pc = "run_wait"
    /\ \A w \in Workers : delegation[w] # "running"
    /\ \E st \in TerminalStatuses :
          run' = [status |-> st,
                  last_error |-> IF st = "failed" THEN "server_error"
                                 ELSE None]
    /\ pc' = "check_status"
    /\ UNCHANGED <<runWaitFrame, thread_messages, delegation, exc>>

\* ... or raises while polling
RunRaises ==
    /\ pc = "run_wait"
    /\ \A w \in Workers : delegation[w] # "running"
    /\ RaiseInWith("HttpResponseError")
    /\ UNCHANGED <<runWaitFrame, run, thread_messages, delegation>>

CheckRunStatusNoReturn ==
    /\ pc = "check_status"
    /\ IF run.status = "failed"
       THEN printed' = Append(printed, <<"run_failed", run.last_error>>)
       ELSE UNCHANGED printed
    /\ pc' = "list_messages"
    /\ UNCHANGED <<envVars, session, inputVars, agentVars, thread, run,
                   collectVars, cleanVars, exc, exit_kind, outputs,
                   platformVars, calls>>
\* lines 155-157
CheckRunStatus ==
    /\ pc = "check_status"
    /\ IF run.status = "failed"
       THEN /\ printed' = Append(printed, <<"run_failed", run.last_error>>)
            /\ exit_kind' = "return_failed"
            /\ pc' = "exit_with"
       ELSE /\ pc' = "list_messages"
            /\ UNCHANGED <<printed, exit_kind>>
    /\ UNCHANGED <<envVars, session, inputVars, agentVars, thread, run,
                   collectVars, cleanVars, exc, outputs, platformVars, calls>>

\* ------------------------------------------------------ collect the output
\* lines 160-166
ListThreadMessages ==
    /\ pc = "list_messages"
    /\ calls' = Append(calls, Call("messages.list", thread))
    /\ \/ /\ messages' = ListMessages(thread_messages)
          /\ mi' = 1
          /\ assistant_texts' = <<>>
          /\ pc' = "collect"
          /\ exc' = exc
       \/ /\ RaiseInWith("HttpResponseError")
          /\ UNCHANGED <<messages, mi, assistant_texts>>
    /\ UNCHANGED <<envVars, session, inputVars, agentVars, thread, run,
                   full_report, cleanVars, exit_kind, printed, outputs,
                   platformVars>>

\* lines 167-173: one iteration of the loop, then the join
CollectStep ==
    /\ pc = "collect"
    /\ IF mi <= Len(messages)
       THEN /\ IF /\ messages[mi].role = "assistant"
                  /\ messages[mi].text_messages # <<>>
               THEN /\ assistant_texts' =
                         Append(assistant_texts, FinalSegment(messages[mi]))
                    /\ printed' = Append(printed,
                                    <<"text", FinalSegment(messages[mi])>>)
               ELSE UNCHANGED <<assistant_texts, printed>>
            /\ mi' = mi + 1
            /\ UNCHANGED <<full_report, pc>>
       ELSE /\ full_report' = Join(assistant_texts, NL)
            /\ pc' = "save_markdown"
            /\ UNCHANGED <<assistant_texts, printed, mi>>
    /\ UNCHANGED <<envVars, session, inputVars, agentVars, thread, run,
                   messages, cleanVars, exc, exit_kind, outputs,
                   platformVars, calls>>

\* ------------------------------------------------------------ save output
ReportFileNoText(kind) ==
    [kind |-> kind, process_description |-> process_description,
     custom_commands |-> custom_commands, full_report |-> <<>>]
\* what the two files carry (lines 183-190 and 193-198)
ReportFile(kind) ==
    [kind |-> kind, process_description |-> process_description,
     custom_commands |-> custom_commands, full_report |-> full_report]

SaveMarkdownSwallows ==
    /\ pc = "save_markdown"
    /\ \/ outputs' = Append(outputs, ReportFile("md"))
       \/ UNCHANGED outputs
    /\ pc' = "save_json"
    /\ UNCHANGED <<envVars, session, inputVars, agentVars, thread, run,
                   collectVars, cleanVars, exc, exit_kind, printed,
                   platformVars, calls>>
\* lines 176-190
SaveMarkdown ==
    /\ pc = "save_markdown"
    /\ \/ /\ outputs' = Append(outputs, ReportFile("md"))
          /\ pc' = "save_json"
          /\ exc' = exc
       \/ RaiseInWith("OSError") /\ UNCHANGED outputs
    /\ UNCHANGED <<envVars, session, inputVars, agentVars, thread, run,
                   collectVars, cleanVars, exit_kind, printed, platformVars,
                   calls>>

\* lines 193-205; the with-block is then left normally
SaveJson ==
    /\ pc = "save_json"
    /\ \/ /\ outputs' = Append(outputs, ReportFile("json"))
          /\ printed' = Append(printed, <<"reports_saved">>)
          /\ exit_kind' = "fallthrough"
          /\ pc' = "exit_with"
          /\ exc' = exc
       \/ RaiseInWith("OSError") /\ UNCHANGED <<outputs, printed, exit_kind>>
    /\ UNCHANGED <<envVars, session, inputVars, agentVars, thread, run,
                   collectVars, cleanVars, platformVars, calls>>

\* ------------------------------------------------------------ exit paths
ExitWithStaysOpen ==
    /\ pc = "exit_with"
    /\ pc' = "finally"
    /\ UNCHANGED <<envVars, session, inputVars, agentVars, thread, run,
                   collectVars, cleanVars, exc, exit_kind, printed, outputs,
                   platformVars, calls>>
\* line 45: agents_client.__exit__ closes the session on every way out of
\* the with-block; an exception in flight keeps propagating
ExitWith ==
    /\ pc = "exit_with"
    /\ session' = "closed"
    /\ pc' = "finally"
    /\ UNCHANGED <<envVars, inputVars, agentVars, thread, run, collectVars,
                   cleanVars, exc, exit_kind, printed, outputs, platformVars,
                   calls>>

AgentsToCleanNoOptimizer == <<orchestrator, analysis_agent>>
AgentsToCleanNoOrchestrator == <<analysis_agent, optimizer_agent>>
\* lines 210-214: locals().get(...) is None for a name never assigned
AgentsToClean == <<orchestrator, analysis_agent, optimizer_agent>>

\* lines 207-214
Finally ==
    /\ pc = "finally"
    /\ printed' = Append(printed, <<"cleaning_up">>)
    /\ agents_to_clean' = AgentsToClean
    /\ ci' = 1
    /\ pc' = "cleanup"
    /\ UNCHANGED <<envVars, session, inputVars, agentVars, thread, run,
                   collectVars, exc, exit_kind, outputs, platformVars, calls>>

cleanupFrame == <<envVars, session, inputVars, agentVars, thread, run,
                  collectVars, agents_to_clean, exit_kind, outputs,
                  platformThreads, thread_messages, platformRuns, delegation>>

CleanupStepEscalating ==
    /\ pc = "cleanup"
    /\ IF ci <= Len(agents_to_clean)
       THEN IF agents_to_clean[ci] # None
            THEN /\ calls' = Append(calls,
                                Call("delete_agent", agents_to_clean[ci]))
                 /\ \/ /\ platformAgents' =
                            {a \in platformAgents :
                                 a.id # agents_to_clean[ci]}
                       /\ ci' = ci + 1
                       /\ UNCHANGED <<printed, exc, pc>>
                    \/ /\ exc' = "HttpResponseError"
                       /\ pc' = "done"
                       /\ UNCHANGED <<platformAgents, printed, ci>>
            ELSE /\ ci' = ci + 1
                 /\ UNCHANGED <<calls, platformAgents, printed, exc, pc>>
       ELSE /\ printed' = Append(printed, <<"done">>)
            /\ pc' = "done"
            /\ UNCHANGED <<calls, platformAgents, ci, exc>>
    /\ UNCHANGED cleanupFrame
\* lines 215-221: one iteration of the loop, then the last print; an
\* exception in flight is re-raised when the finally block ends
CleanupStep ==
    /\ pc = "cleanup"
    /\ IF ci <= Len(agents_to_clean)
       THEN IF agents_to_clean[ci] # None
            THEN /\ calls' = Append(calls,
                                Call("delete_agent", agents_to_clean[ci]))
                 /\ \/ /\ platformAgents' =
                            {a \in platformAgents :
                                 a.id # agents_to_clean[ci]}
                       /\ UNCHANGED printed
                    \/ /\ printed' = Append(printed,
                                <<"warning", agents_to_clean[ci]>>)
                       /\ UNCHANGED platformAgents
                 /\ ci' = ci + 1
                 /\ UNCHANGED <<exc, pc>>
            ELSE /\ ci' = ci + 1
                 /\ UNCHANGED <<calls, platformAgents, printed, exc, pc>>
       ELSE /\ printed' = Append(printed, <<"done">>)
            /\ pc' = "done"
            /\ UNCHANGED <<calls, platformAgents, ci, exc>>
    /\ UNCHANGED cleanupFrame

Next ==
    \/ CheckConfig
    \/ ConstructClient
    \/ EnterWith
    \/ ReadLine
    \/ CheckDescription
    \/ ReadCustom
    \/ CreateAnalysisAgent
    \/ CreateOptimizerAgent
    \/ CreateOrchestrator
    \/ CreateThread
    \/ CreateMessage
    \/ StartRun
    \/ DelegateBegin
    \/ DelegateEnd
    \/ AssistantReply
    \/ RunTerminates
    \/ RunRaises
    \/ CheckRunStatus
    \/ ListThreadMessages
    \/ CollectStep
    \/ SaveMarkdown
    \/ SaveJson
    \/ ExitWith
    \/ Finally
    \/ CleanupStep

Spec == Init /\ [][Next]_vars

\* ================================================================ claims
Range(s) == {s[i] : i \in DOMAIN s}

ConfigPresent == PROJECT_ENDPOINT = "set" /\ MODEL_DEPLOYMENT = "set"

\* number of delete attempts made for a definition
DeleteAttempts(id) ==
    Cardinality({i \in DOMAIN calls :
                    calls[i].op = "delete_agent" /\ calls[i].arg = id})

\* the definitions this invocation created (create_agent returned)
CreatedIds == {analysis_agent, optimizer_agent, orchestrator} \ {None}

\* the invocation is over and it went through the try / finally
LeftPipeline == pc = "done" /\ ci > 0

\* C1: however the pipeline is left (completed run, failed run, exception
\* at any step), exactly one delete attempt has been made for each
\* definition created in this invocation and none for a definition that
\* was never created; at no moment is a definition attempted twice.
C1_CleanupTotality ==
    /\ \A id \in AgentIds :
          /\ DeleteAttempts(id) <= 1
          /\ DeleteAttempts(id) > 0 => id \in CreatedIds
    /\ LeftPipeline =>
          \A id \in AgentIds :
              DeleteAttempts(id) = IF id \in CreatedIds THEN 1 ELSE 0

\* an exception between two agent creations: one definition exists, it
\* got its delete attempt, the other two were never created
C1_Witness ==
    /\ LeftPipeline
    /\ exc = "HttpResponseError"
    /\ CreatedIds = {"asst_analysis"}
    /\ DeleteAttempts("asst_analysis") = 1

\* C2: a failed delete is reported as a warning and nothing else: the
\* other created definitions still get their delete attempt, a warning is
\* printed exactly for the definitions whose delete failed, the cleanup
\* ends with its last print, and the invocation ends as it would have with
\* all deletes succeeding (an exception leaves it only when one left the
\* with-block).
C2_CleanupBestEffort ==
    LeftPipeline =>
        /\ \A id \in CreatedIds : DeleteAttempts(id) = 1
        /\ \A id \in AgentIds :
              (<<"warning", id>> \in Range(printed))
                  <=> (id \in CreatedIds
                       /\ \E a \in platformAgents : a.id = id)
        /\ printed[Len(printed)] = <<"done">>
        /\ (exc # None) <=> (exit_kind = "none")

\* the first delete (orchestrator) failed, the two after it were made and
\* succeeded, and the invocation returned normally with its report
C2_Witness ==
    /\ LeftPipeline
    /\ <<"warning", "asst_orchestrator">> \in Range(printed)
    /\ {a.id : a \in platformAgents} = {"asst_orchestrator"}
    /\ DeleteAttempts("asst_analysis") = 1
    /\ DeleteAttempts("asst_optimizer") = 1
    /\ exit_kind = "fallthrough"
    /\ exc = None

ReportWritten ==
    /\ Len(outputs) = 2
    /\ outputs[1].kind = "md"
    /\ outputs[2].kind = "json"

NonBlank(description) ==
    \E i \in DOMAIN description : description[i] \notin Whitespace

PlatformTouched ==
    \/ calls # <<>>
    \/ platformAgents # {}
    \/ platformThreads # {}
    \/ thread_messages # <<>>
    \/ platformRuns > 0

\* C4: a definition, thread, message or run exists, a platform call was
\* made or a report was written only if both settings are present and the
\* description has a non-whitespace character; with a setting missing the
\* invocation ends by the error, with a blank description by the no-op
\* return, and in both nothing was created, deleted or written.
C4_PreFlight ==
    /\ (PlatformTouched \/ outputs # <<>>) =>
          /\ ~ Falsy(PROJECT_ENDPOINT)
          /\ ~ Falsy(MODEL_DEPLOYMENT)
          /\ NonBlank(process_description)
    /\ (pc = "done" /\ ~ ConfigPresent) =>
          /\ exc = "RuntimeError"
          /\ ~ PlatformTouched
          /\ outputs = <<>>
    /\ (pc \in {"input_custom", "create_analysis"}) =>
          NonBlank(process_description)
    /\ (pc = "done" /\ ConfigPresent /\ exc = None
            /\ ~ NonBlank(process_description)) =>
          /\ exit_kind = "return_blank"
          /\ ~ PlatformTouched
          /\ outputs = <<>>

\* a description of two whitespace-only lines: the no-op return, nothing
\* touched
C4_Witness ==
    /\ pc = "done"
    /\ Len(process_lines) = 2
    /\ ~ NonBlank(process_description)
    /\ exit_kind = "return_blank"
    /\ <<"no_description">> \in Range(printed)
    /\ calls = <<>>

RunCallIndexes == {i \in DOMAIN calls : calls[i].op = "create_and_process"}

\* C5: once create_and_process has returned a Failed run and the status
\* was looked at, its last_error has been printed, one run was started and
\* no second one, every platform operation after the run is a delete
\* attempt, the messages were not listed, nothing was collected or
\* written, and the invocation ends without an exception.
C5_FailedRunTerminal ==
    (run.status = "failed" /\ pc # "check_status") =>
        /\ <<"run_failed", "server_error">> \in Range(printed)
        /\ exit_kind = "return_failed"
        /\ platformRuns = 1
        /\ Cardinality(RunCallIndexes) = 1
        /\ \A i \in RunCallIndexes :
              \A j \in DOMAIN calls : j > i => calls[j].op = "delete_agent"
        /\ messages = <<>>
        /\ assistant_texts = <<>>
        /\ full_report = <<>>
        /\ outputs = <<>>
        /\ ~ \E e \in Range(printed) : e[1] \in {"text", "reports_saved"}
        /\ exc = None

\* a Failed run on a thread that holds an assistant message; the three
\* deletes were attempted and the invocation is over
C5_Witness ==
    /\ LeftPipeline
    /\ run.status = "failed"
    /\ AssistantCount(thread_messages) > 0
    /\ calls[Len(calls)].op = "delete_agent"
    /\ \A id \in AgentIds : DeleteAttempts(id) = 1

\* the assistant messages that carry text, by position in the thread
AssistantIdx(msgs) ==
    {i \in DOMAIN msgs : /\ msgs[i].role = "assistant"
                         /\ Len(msgs[i].text_messages) > 0}

RankIn(S, i) == Cardinality({j \in S : j <= i})

RECURSIVE SplitOn(_, _)
SplitOn(s, sep) ==
    IF \A i \in DOMAIN s : s[i] # sep THEN <<s>>
    ELSE LET k == CHOOSE i \in DOMAIN s :
                      s[i] = sep /\ \A j \in 1..(i - 1) : s[j] # sep
         IN <<SubSeq(s, 1, k - 1)>>
                \o SplitOn(SubSeq(s, k + 1, Len(s)), sep)

\* the loop over the listed messages has ended and the texts are joined
Collected == mi = Len(messages) + 1 /\ pc # "collect"

\* C6: after a Completed run, the pieces of full_report are, in the
\* thread's creation order, the last text segment of each assistant
\* message that has one: the k-th piece comes from the k-th such message,
\* no piece is the user's message, and full_report is these pieces in
\* that order, separated by newlines.
C6_OutputCollection ==
    (Collected /\ run.status = "completed") =>
        /\ Len(assistant_texts) = Cardinality(AssistantIdx(thread_messages))
        /\ \A i \in AssistantIdx(thread_messages) :
              assistant_texts[RankIn(AssistantIdx(thread_messages), i)]
                  = thread_messages[i].text_messages[
                        Len(thread_messages[i].text_messages)]
        /\ \A k \in DOMAIN assistant_texts :
              assistant_texts[k]
                  # UserMessage(process_description, custom_commands)
        /\ IF assistant_texts = <<>> THEN full_report = <<>>
           ELSE SplitOn(full_report, NL) = assistant_texts

\* two assistant messages of two segments each, with different final
\* segments, after the user message
C6_Witness ==
    /\ Collected
    /\ run.status = "completed"
    /\ Len(thread_messages) = 3
    /\ thread_messages[1].role = "user"
    /\ thread_messages[2].text_messages = <<AnalysisText, OptimizationText>>
    /\ thread_messages[3].text_messages = <<OptimizationText, AnalysisText>>
    /\ assistant_texts = <<OptimizationText, AnalysisText>>
    /\ full_report = OptimizationText \o <<NL>> \o AnalysisText

MissingHeadings(text) == Headings \ Range(text)

CompletedWithReport ==
    /\ pc = "done"
    /\ run.status = "completed"
    /\ exit_kind = "fallthrough"

\* C7 as stated: after a Completed run whose full_report lacks a mandated
\* heading, a data-quality warning has been reported by the end of the
\* invocation.
C7_Original ==
    (CompletedWithReport /\ MissingHeadings(full_report) # {}) =>
        \E e \in Range(printed) : e[1] = "data_quality_warning"

\* C7 amended: the program does not look at the headings.  After a
\* Completed run the report is written as both files with the collected
\* full_report whether or not a mandated heading is missing, and in both
\* cases nothing is reported beyond the assistant texts, the save notice
\* and the cleanup messages (a warning is only ever about a failed delete
\* of a created definition).
C7_NoValidation ==
    CompletedWithReport =>
        /\ ReportWritten
        /\ \A k \in DOMAIN outputs :
              /\ outputs[k].full_report = full_report
              /\ outputs[k].process_description = process_description
        /\ IF assistant_texts = <<>> THEN full_report = <<>>
           ELSE SplitOn(full_report, NL) = assistant_texts
        /\ \A e \in Range(printed) :
              /\ e[1] \in {"text", "reports_saved", "cleaning_up",
                           "warning", "done"}
              /\ e[1] = "warning" => e[2] \in CreatedIds

\* a Completed run whose report has only the analysis half: written, no
\* warning of any kind
C7_Witness ==
    /\ CompletedWithReport
    /\ full_report = AnalysisText
    /\ "OPTIMIZATION RECOMMENDATIONS" \in MissingHeadings(full_report)
    /\ ReportWritten
    /\ ~ \E e \in Range(printed) : e[1] = "warning"

\* C8 as stated: the Optimization call starts only after the Analysis call
\* has completed with a result.
C8_Original ==
    delegation["optimization"] # "none" => delegation["analysis"] = "done"

CallIndex(op, arg) ==
    {i \in DOMAIN calls : calls[i].op = op /\ calls[i].arg = arg}

\* C8 amended: the program fixes no order between the two delegated calls;
\* they are made by the platform while the program is blocked in
\* create_and_process.  What the program guarantees is that a delegated
\* call is made only within the one run it started, on the orchestrator,
\* after both worker definitions and then the orchestrator were created
\* and the user message was posted, and that during the run the
\* orchestrator definition exists with exactly the two worker definitions
\* as its tools, analysis first, both existing.
C8_DelegationWithinRun ==
    /\ (\E w \in Workers : delegation[w] # "none") =>
          /\ platformRuns = 1
          /\ \E a \in CallIndex("create_agent", "process_analysis_agent") :
             \E o \in CallIndex("create_agent",
                                "process_optimization_advisor") :
             \E c \in CallIndex("create_agent", "process_orchestrator") :
             \E m \in CallIndex("messages.create", ThreadId) :
             \E r \in CallIndex("create_and_process", "asst_orchestrator") :
                 a < o /\ o < c /\ c < m /\ m < r
    /\ (\E w \in Workers : delegation[w] = "running") => pc = "run_wait"
    /\ pc = "run_wait" =>
          /\ [id |-> "asst_orchestrator", name |-> "process_orchestrator",
              tools |-> <<"asst_analysis", "asst_optimizer">>]
                 \in platformAgents
          /\ {"asst_analysis", "asst_optimizer"}
                 \subseteq {a.id : a \in platformAgents}

\* within the run, the optimization call has completed while the analysis
\* call is still running
C8_Witness ==
    /\ pc = "run_wait"
    /\ delegation["optimization"] = "done"
    /\ delegation["analysis"] = "running"

NoDeleteFailed == ~ \E e \in Range(printed) : e[1] = "warning"

\* C9 as stated: after a cleanup in which every delete succeeded, nothing
\* the invocation created exists on the platform: no definition, no
\* thread, no message, no run.
C9_Original ==
    (LeftPipeline /\ NoDeleteFailed) =>
        /\ platformAgents = {}
        /\ platformThreads = {}
        /\ thread_messages = <<>>
        /\ platformRuns = 0

\* C9 amended: after a cleanup in which every delete succeeded, none of
\* the definitions the invocation created exists; the thread it created
\* (with its messages and its run) is never deleted by the program and
\* still exists.
C9_DefinitionsScoped ==
    /\ \A i \in DOMAIN calls :
          calls[i].op \in {"create_agent", "threads.create",
                           "messages.create", "create_and_process",
                           "messages.list", "delete_agent"}
    /\ (LeftPipeline /\ NoDeleteFailed) =>
          /\ platformAgents = {}
          /\ thread # None => thread \in platformThreads
          /\ run.status # "none" =>
                /\ platformRuns = 1
                /\ thread_messages # <<>>
                /\ thread_messages[1].role = "user"

\* a Completed run, the three deletes succeeded, the thread is still there
C9_Witness ==
    /\ LeftPipeline
    /\ NoDeleteFailed
    /\ run.status = "completed"
    /\ CreatedIds = AgentIds
    /\ platformAgents = {}
    /\ platformThreads = {ThreadId}
    /\ Len(thread_messages) = 2

\* C10: every delete attempt is issued on the closed session, every other
\* platform operation on the open one; the cleanup starts only once the
\* session opened by the with-block is closed.
C10_CloseBeforeCleanup ==
    /\ \A i \in DOMAIN calls :
          IF calls[i].op = "delete_agent"
          THEN calls[i].session = "closed"
          ELSE calls[i].session = "open"
    /\ (pc \in {"finally", "cleanup"} \/ LeftPipeline) => session # "open"
    /\ (pc \in {"finally", "cleanup"} /\ CreatedIds # {}) =>
          session = "closed"

\* an exception path: the creates were issued on the open session, the
\* deletes on the closed one
C10_Witness ==
    /\ LeftPipeline
    /\ exc = "OSError"
    /\ \E i \in DOMAIN calls :
          calls[i].op = "messages.list" /\ calls[i].session = "open"
    /\ \E i \in DOMAIN calls :
          calls[i].op = "delete_agent" /\ calls[i].session = "closed"
    /\ session = "closed"

====
